---------------------------- MODULE Spec2Model ----------------------------
(***************************************************************************)
(* State-machine model of the clipboard history engine of                  *)
(* minimal-clipboard (main process, src/unnamed/part_003, the current      *)
(* main.js): bounded history, dedup caches, LRU cache, image files on      *)
(* disk, persisted store, settings, clipboard poll and memory governor.    *)
(*                                                                         *)
(* Sizes are scaled down so that the state space is finite; the order of   *)
(* the scaled constants is the order of the constants of the code:         *)
(*   cache-key prefix (100) < COMPRESSION_THRESHOLD (10000)                *)
(*                          < MAX_TEXT_SIZE (50000)                        *)
(*   default maxHistory (20) < LRU maxSize (30) < MAX_HISTORY_SIZE (50)    *)
(***************************************************************************)
EXTENDS Integers, Sequences, FiniteSets, TLC

VARIABLES
  clipboardHistory,        \* part_003:356  array of entries, most recent first
  textCache,               \* part_003:358  Set of texts
  imageCache,              \* part_003:359  Set of image signatures
  clipboardCache,          \* part_003:498  LRUCache: <<[key, item]>>, least recently used first
  settings,                \* part_003:198  in-memory settings
  store,                   \* part_003:170  electron-store: persisted history and settings
  files,                   \* files present in <userData>/images
  unlinks,                 \* unlink calls issued by deleteFileQuiet, per file
  nextId,                  \* source of the unique ids of saveImagePng / saveThumbnail*
  pending,                 \* deferred image-processing tasks (timers, setImmediate), each
                           \* identified by the tick that scheduled it
  lastClipboardSignature,  \* part_003:915
  lastClipboardCheck,      \* part_003:916
  consecutiveEmptyChecks,  \* part_003:917
  currentCheckInterval,    \* part_003:920
  lastMemoryCleanup,       \* part_003:195
  rendererView,            \* last payload sent on channel 'clipboard-updated'
  copied,                  \* observer: the items handed to addToHistory (copy specification),
                           \* the raw clipboard texts (text specification)
  clipboardMonitorInterval,\* part_003:370  TRUE while the poll timer is set
  memoryLogInterval,       \* part_003:193  TRUE while the memory timer is set
  pasteSessionCompleted,   \* part_003:366
  pendingPasteTimers,      \* part_003:369  the paste timers that have not fired yet
  platform,                \* process.platform
  keystrokes,              \* observer: the pastes sent to the target application
                           \* since the last paste-item request
  pollTimers,              \* observer: the setInterval timers of the poll that are live
  memoryTimers,            \* observer: the setInterval timers of the memory monitor
                           \* that are live
  truncateCalls,           \* observer: the calls of truncateText made on the text of
                           \* the entry ingested last, during its ingestion
  lastThumbnail,           \* observer: the size of the thumbnail created last
  now                      \* Date.now()

vars == <<clipboardHistory, textCache, imageCache, clipboardCache, settings,
          store, files, unlinks, nextId, pending, lastClipboardSignature,
          lastClipboardCheck, consecutiveEmptyChecks, currentCheckInterval,
          lastMemoryCleanup, rendererView, copied, clipboardMonitorInterval,
          memoryLogInterval, pasteSessionCompleted, pendingPasteTimers, platform,
          keystrokes, pollTimers, memoryTimers, truncateCalls, lastThumbnail, now>>

pasteVars == <<pasteSessionCompleted, pendingPasteTimers, platform, keystrokes>>
liveTimers == <<pollTimers, memoryTimers>>
timerVars == <<clipboardMonitorInterval, memoryLogInterval, pasteVars, liveTimers,
               truncateCalls, lastThumbnail>>

storeVars == <<clipboardHistory, textCache, imageCache, clipboardCache,
               store, files, unlinks, rendererView>>
pollVars  == <<lastClipboardSignature, lastClipboardCheck,
               consecutiveEmptyChecks, currentCheckInterval>>

-----------------------------------------------------------------------------
(* Program constants.  Time is in milliseconds.                            *)

MIN_CHECK_INTERVAL == 2000
MAX_CHECK_INTERVAL == 10000
CHECK_INTERVAL_STEP == 500
POLL_PERIOD == 2000
IDLE_CHECKS == 5
MEMORY_CLEANUP_THRESHOLD == 150
AGGRESSIVE_CLEANUP_THRESHOLD == 200
MEMORY_CLEANUP_COOLDOWN == 300000

(* Scaled program constants (see the header).                              *)
CACHE_KEY_PREFIX == 2         \* substring(0, 100)
COMPRESSION_THRESHOLD == 3    \* 10000
MAX_TEXT_SIZE == 4            \* 50000
DEFAULT_MAX_HISTORY == 1      \* DEFAULT_SETTINGS.maxHistory = 20
LRU_MAX_SIZE == 2             \* new LRUCache(30)
MAX_HISTORY_SIZE == 3         \* 50
MIN_THUMB_WIDTH == 2          \* smallest thumbWidth getThumbWidth accepts (60)
DEFAULT_THUMB_WIDTH == 3      \* DEFAULT_SETTINGS.thumbWidth (320)

(* Bounds of the exploration.                                              *)
MaxPolls == 2                 \* poll ticks explored in the store specification
MaxImages == 2                \* images ingested (two file ids each)
MaxPending == 1               \* image tasks in flight at the same time
MaxCopies == 4                \* poll ticks explored in the copy specification
MaxCapacity == 3              \* largest maxHistory a settings update sets
MaxGovPolls == 4
MaxReadPolls == 3
MaxIngestLen == 6             \* longest text copied in the ingestion specification
MaxIngestPolls == 1           \* poll ticks explored in the ingestion specification
MaxPreferPolls == 3           \* poll ticks explored in the preference specification
MaxImageDim == 4              \* largest width and height of a copied image
MaxThumbPolls == 1            \* poll ticks explored in the thumbnail specification
MaxIdleTicks == 64            \* ticks of the poll timer in the idle specification
MaxTextLen == 5
MaxTextPolls == 1
MaxIdlePolls == 0             \* consecutive polls without a change in the store specification
StartTime == 300000           \* Date.now() at first launch

NoFile == -1                  \* null path
\* a key of the store: missing, or saved with a value
Missing(default) == [present |-> FALSE, value |-> default]
Saved(v) == [present |-> TRUE, value |-> v]
NoSignature == [type |-> "none"]   \* lastClipboardSignature = ''
NoImage == [empty |-> TRUE]        \* nativeImage with isEmpty()

-----------------------------------------------------------------------------
(* Generic helpers.                                                        *)

Min(a, b) == IF a < b THEN a ELSE b

Range(s) == {s[i] : i \in 1..Len(s)}

\* Array.prototype.slice(0, n)
Take(s, n) == SubSeq(s, 1, Min(n, Len(s)))

\* Array.prototype.slice(n)
Drop(s, n) == SubSeq(s, Min(n, Len(s)) + 1, Len(s))

\* Array.prototype.splice(i - 1, 1): the array without its i-th element
RemoveAt(s, i) == SubSeq(s, 1, i - 1) \o SubSeq(s, i + 1, Len(s))

\* Array.prototype.findIndex, 1-based; 0 when no element satisfies P
FindIndex(s, P(_)) ==
  IF \E i \in 1..Len(s) : P(s[i])
  THEN CHOOSE i \in 1..Len(s) : P(s[i]) /\ \A j \in 1..(i - 1) : ~P(s[j])
  ELSE 0

-----------------------------------------------------------------------------
(* TextPolicy.  A text is a sequence of UTF-16 code units; "H" and "L"     *)
(* stand for a high and a low surrogate, "?" for U+FFFD.                   *)

TruncationMarker == <<"#">>   \* '\n\n[... text truncated for memory optimization]'

\* mutant of truncateText: the marker is appended to the whole text
truncateTextUncut(text) ==
  IF Len(text) <= MAX_TEXT_SIZE THEN text ELSE text \o TruncationMarker

\* part_003:1256 truncateText
truncateText(text) ==
  IF Len(text) <= MAX_TEXT_SIZE
  THEN text
  ELSE SubSeq(text, 1, MAX_TEXT_SIZE) \o TruncationMarker

\* Buffer.from(text, 'utf8') followed by toString('utf8'): a surrogate that
\* is not part of a pair is replaced by U+FFFD
Utf8(text) ==
  [i \in 1..Len(text) |->
     IF text[i] = "H" /\ ~(i < Len(text) /\ text[i + 1] = "L") THEN "?"
     ELSE IF text[i] = "L" /\ ~(i > 1 /\ text[i - 1] = "H") THEN "?"
     ELSE text[i]]

\* zlib.deflateSync, modelled by a lossless run-length code
RECURSIVE Deflate(_)
Deflate(bytes) ==
  IF bytes = <<>> THEN <<>>
  ELSE LET rest == Deflate(Tail(bytes))
       IN IF rest # <<>> /\ rest[1][1] = Head(bytes)
          THEN <<(<<Head(bytes), rest[1][2] + 1>>)>> \o Tail(rest)
          ELSE <<(<<Head(bytes), 1>>)>> \o rest

\* zlib.inflateSync
RECURSIVE Inflate(_)
Inflate(runs) ==
  IF runs = <<>> THEN <<>>
  ELSE [i \in 1..runs[1][2] |-> runs[1][1]] \o Inflate(Tail(runs))

\* the decimal digits of the base64 alphabet used for run lengths
Digits == <<"1", "2", "3", "4", "5", "6", "7", "8", "9">>

\* Buffer.toString('base64'): each run <<byte, n>> becomes the two characters byte, n
RECURSIVE Base64(_)
Base64(runs) ==
  IF runs = <<>> THEN <<>>
  ELSE <<runs[1][1], Digits[runs[1][2]]>> \o Base64(Tail(runs))

\* the string is the base64 form of a deflate stream: inflateSync does not throw
IsDeflateStream(data) ==
  /\ Len(data) % 2 = 0
  /\ \A i \in 1..Len(data) : i % 2 = 0 => \E n \in 1..Len(Digits) : Digits[n] = data[i]

\* Buffer.from(data, 'base64') of a well-formed string
RECURSIVE FromBase64(_)
FromBase64(data) ==
  IF data = <<>> THEN <<>>
  ELSE <<(<<data[1], CHOOSE n \in 1..Len(Digits) : Digits[n] = data[2]>>)>>
         \o FromBase64(Tail(Tail(data)))

\* A stored text is a JS string, Plain(s), or the object compressText builds
Plain(s) == [compressed |-> FALSE, data |-> s]

\* part_003:1212 compressText
compressText(text) ==
  IF Len(text) < COMPRESSION_THRESHOLD
  THEN Plain(text)
  ELSE LET input == Utf8(text)
           compressed == Deflate(input)
       IN [compressed |-> TRUE, data |-> Base64(compressed),
           originalSize |-> Len(input), compressedSize |-> Len(compressed)]

\* part_003:1237 decompressText: a string is returned as it is; when
\* inflateSync throws, the base64 data is returned (part_003:1249)
decompressText(compressedData) ==
  IF compressedData.compressed /\ compressedData.data # <<>>
  THEN IF IsDeflateStream(compressedData.data)
       THEN Inflate(FromBase64(compressedData.data))
       ELSE compressedData.data
  ELSE IF compressedData.compressed THEN compressedData ELSE compressedData.data

\* part_003:1266 processText
processText(text) ==
  IF text = <<>> THEN Plain(text) ELSE compressText(truncateText(text))

\* h.text === text for a JS string text: an object never equals a string
StrictEqualsString(stored, text) == ~stored.compressed /\ stored.data = text

\* the content an entry stands for (text as the user copied it, after truncation)
TextOf(stored) == decompressText(stored)

-----------------------------------------------------------------------------
(* File system: <userData>/images.  fs = [files, unlinks].                 *)

\* part_003:1207 deleteFileQuiet; a null path is skipped by the callers' `if`
deleteFileQuiet(fs, filePath) ==
  IF filePath = NoFile THEN fs
  ELSE [files   |-> fs.files \ {filePath},
        unlinks |-> [once  |-> fs.unlinks.once \cup {filePath},
                     again |-> IF filePath \in fs.unlinks.once
                               THEN fs.unlinks.again \cup {filePath}
                               ELSE fs.unlinks.again]]

\* if (i.filePath) deleteFileQuiet(i.filePath); if (i.thumbPath) deleteFileQuiet(i.thumbPath)
DeleteItemFiles(fs, item) ==
  IF item.type = "image"
  THEN deleteFileQuiet(deleteFileQuiet(fs, item.filePath), item.thumbPath)
  ELSE fs

\* forEach over an array of items, deleting the files of the image items
RECURSIVE DeleteFilesOf(_, _)
DeleteFilesOf(fs, items) ==
  IF items = <<>> THEN fs
  ELSE DeleteFilesOf(DeleteItemFiles(fs, Head(items)), Tail(items))

\* update-settings deletes the full image only (part_003:1719)
RECURSIVE DeleteFullFilesOf(_, _)
DeleteFullFilesOf(fs, items) ==
  IF items = <<>> THEN fs
  ELSE DeleteFullFilesOf(
         IF Head(items).type = "image" THEN deleteFileQuiet(fs, Head(items).filePath) ELSE fs,
         Tail(items))

\* the files the entries of a history refer to
ReferencedFiles(history) ==
  UNION {IF history[i].type = "image"
         THEN {history[i].filePath, history[i].thumbPath} \ {NoFile}
         ELSE {} : i \in 1..Len(history)}

-----------------------------------------------------------------------------
(* LRUCache (part_003:374).  The Map and accessOrder are one sequence of   *)
(* [key, item], least recently used first.                                 *)

\* part_003:444 has
LRUHas(cache, key) == \E i \in 1..Len(cache) : cache[i].key = key

\* part_003:420 moveToEnd
LRUMoveToEnd(cache, key) ==
  LET i == FindIndex(cache, LAMBDA e : e.key = key)
  IN IF i = 0 THEN cache ELSE Append(RemoveAt(cache, i), cache[i])

\* part_003:428 evictLRU: [cache, fs]
LRUEvict(cache, fs) ==
  IF cache = <<>> THEN [cache |-> cache, fs |-> fs]
  ELSE [cache |-> Tail(cache), fs |-> DeleteItemFiles(fs, Head(cache).item)]

\* part_003:394 set: [cache, fs]
LRUSet(cache, fs, key, item) ==
  IF LRUHas(cache, key)
  THEN LET i == FindIndex(cache, LAMBDA e : e.key = key)
       IN [cache |-> Append(RemoveAt(cache, i), [key |-> key, item |-> item]),
           fs |-> fs]
  ELSE LET added == Append(cache, [key |-> key, item |-> item])
       IN IF Len(added) > LRU_MAX_SIZE
          THEN LRUEvict(added, fs)
          ELSE [cache |-> added, fs |-> fs]

\* part_003:460 clear: the files of every cached image are deleted
LRUClearFiles(cache, fs) ==
  DeleteFilesOf(fs, [i \in 1..Len(cache) |-> cache[i].item])

\* part_003:477 getItemsInOrder: most recently used first
LRUItemsInOrder(cache) ==
  [i \in 1..Len(cache) |-> cache[Len(cache) + 1 - i].item]

-----------------------------------------------------------------------------
(* Settings.  A raw maxHistory value is a number num/den or a value that   *)
(* Number() maps to NaN.                                                   *)

Num(n, d) == [kind |-> "number", num |-> n, den |-> d]
NotANumber == [kind |-> "nan"]

DEFAULT_SETTINGS == [maxHistory |-> Num(DEFAULT_MAX_HISTORY, 1)]

\* part_003:361 getMaxHistory, for a settings object s
MaxHistoryOf(s) ==
  LET v == s.maxHistory
  IN IF v.kind = "number" /\ v.num > 0 THEN v.num \div v.den ELSE DEFAULT_MAX_HISTORY

getMaxHistory == MaxHistoryOf(settings)

-----------------------------------------------------------------------------
(* EntryStore: addToHistory and its helpers.                               *)

IsText(h) == h.type = "text"
IsImage(h) == h.type = "image"

\* part_003:1036 cacheKey
CacheKey(item) ==
  IF item.type = "text"
  THEN [type |-> "text", prefix |-> Take(item.text, CACHE_KEY_PREFIX)]
  ELSE [type |-> "image", signature |-> item.signature]

\* part_003:1289 removeDuplicateText: [history, textCache]
removeDuplicateText(history, tCache, text) ==
  IF Plain(text) \notin tCache
  THEN [history |-> history, textCache |-> tCache]
  ELSE LET index == FindIndex(history, LAMBDA h : IsText(h) /\ StrictEqualsString(h.text, text))
       IN IF index # 0
          THEN [history |-> RemoveAt(history, index), textCache |-> tCache \ {Plain(text)}]
          ELSE [history |-> history, textCache |-> tCache]

\* part_003:1302 removeDuplicateImage: [history, imageCache, fs]
removeDuplicateImage(history, iCache, fs, item) ==
  IF item.signature \in iCache
  THEN LET index == FindIndex(history, LAMBDA h : IsImage(h) /\ h.signature = item.signature)
       IN IF index # 0
          THEN [history |-> RemoveAt(history, index),
                imageCache |-> iCache \ {item.signature},
                fs |-> DeleteItemFiles(fs, history[index])]
          ELSE [history |-> history, imageCache |-> iCache, fs |-> fs]
  ELSE LET index == FindIndex(history, LAMBDA h : IsImage(h) /\ h.width = item.width
                                                            /\ h.height = item.height)
       IN IF index # 0
          THEN [history |-> RemoveAt(history, index),
                imageCache |-> iCache \ {history[index].signature},
                fs |-> DeleteItemFiles(fs, history[index])]
          ELSE [history |-> history, imageCache |-> iCache, fs |-> fs]

\* mutant of LimitHistory: the limit is off by one
LimitHistoryOffByOne(history, max) ==
  IF Len(history) > max THEN Take(history, max + 1) ELSE history

\* part_003:1082 "Limit history size": the entries kept
LimitHistory(history, max) ==
  IF Len(history) > max THEN Take(history, max) ELSE history

\* part_003:1084 toRemove
ToRemove(history, max) ==
  IF Len(history) > max THEN Drop(history, max) ELSE <<>>

\* part_003:1277 rebuildCaches: textCache
RebuildTextCache(history) ==
  {history[i].text : i \in {j \in 1..Len(history) : IsText(history[j])}}

\* part_003:1277 rebuildCaches: imageCache
RebuildImageCache(history) ==
  {history[i].signature : i \in {j \in 1..Len(history) : IsImage(history[j])}}

\* part_003:1340 the lightweight projection of one item
Lightweight(i, onDisk) ==
  IF i.type = "image"
  THEN [type |-> "image", id |-> i.id, width |-> i.width, height |-> i.height,
        thumbDataUrl |-> (i.thumbPath # NoFile /\ i.thumbPath \in onDisk),
        thumbPath |-> i.thumbPath, timestamp |-> i.timestamp]
  ELSE [type |-> "text", text |-> decompressText(i.text), timestamp |-> i.timestamp]

\* part_003:1334 sendHistoryToRenderer: the payload of 'clipboard-updated'
LightweightHistory(cache, history, onDisk) ==
  LET itemsToSend == IF Len(cache) > 0 THEN LRUItemsInOrder(cache) ELSE history
  IN [k \in 1..Len(itemsToSend) |-> Lightweight(itemsToSend[k], onDisk)]

\* the new entry addToHistory builds (part_003:1052, 1063)
NewItem(item, t) ==
  IF item.type = "text"
  THEN [type |-> "text", text |-> processText(item.text), timestamp |-> t]
  ELSE [type |-> "image", id |-> item.id, filePath |-> item.filePath,
        width |-> item.width, height |-> item.height, thumbPath |-> item.thumbPath,
        signature |-> item.signature, timestamp |-> t]

\* part_003:1032 addToHistory
addToHistory(item, t) ==
  LET cacheKey == CacheKey(item)
      fs0 == [files |-> files, unlinks |-> unlinks]
  IN IF LRUHas(clipboardCache, cacheKey)
     THEN \* clipboardCache.get marks the key as used; nothing else happens
          /\ clipboardCache' = LRUMoveToEnd(clipboardCache, cacheKey)
          /\ UNCHANGED <<clipboardHistory, textCache, imageCache, store,
                         files, unlinks, rendererView>>
     ELSE LET newItem == NewItem(item, t)
              dedup == IF item.type = "text"
                       THEN LET r == removeDuplicateText(clipboardHistory, textCache, item.text)
                            IN [history |-> r.history, textCache |-> r.textCache,
                                imageCache |-> imageCache, fs |-> fs0]
                       ELSE LET r == removeDuplicateImage(clipboardHistory, imageCache, fs0, item)
                            IN [history |-> r.history, textCache |-> textCache,
                                imageCache |-> r.imageCache, fs |-> r.fs]
              unshifted == <<newItem>> \o dedup.history
              lru == LRUSet(clipboardCache, dedup.fs, cacheKey, newItem)
              tCache1 == IF item.type = "text"
                         THEN dedup.textCache \cup {Plain(item.text)}
                         ELSE dedup.textCache
              iCache1 == IF item.type = "image"
                         THEN dedup.imageCache \cup {item.signature}
                         ELSE dedup.imageCache
              toRemove == ToRemove(unshifted, getMaxHistory)
              fs2 == DeleteFilesOf(lru.fs, toRemove)
              limited == LimitHistory(unshifted, getMaxHistory)
          IN /\ clipboardHistory' = limited
             /\ clipboardCache' = lru.cache
             /\ textCache' = tCache1 \ {toRemove[i].text :
                                          i \in {j \in 1..Len(toRemove) : IsText(toRemove[j])}}
             /\ imageCache' = iCache1 \ {toRemove[i].signature :
                                           i \in {j \in 1..Len(toRemove) : IsImage(toRemove[j])}}
             /\ files' = fs2.files
             /\ unlinks' = fs2.unlinks
             /\ store' = [store EXCEPT !.clipboardHistory = Saved(limited)]
             /\ rendererView' = LightweightHistory(lru.cache, limited, fs2.files)

-----------------------------------------------------------------------------
(* ChangeDetector: the setInterval callback of monitorClipboard and the    *)
(* deferred image processing.                                              *)

\* mutant of IsBlank: no text counts as whitespace
IsBlankNever(text) == FALSE

\* currentText.trim() === ''
IsBlank(text) == \A i \in 1..Len(text) : text[i] = " "

\* `image:${size.width}x${size.height}` (part_003:952)
ImageSignature(img) == <<img.width, img.height>>

\* mutant of HasImage: an image counts only when the clipboard holds no text
HasImageAlone(clip) == clip.image # NoImage /\ clip.text = <<>>

\* part_003:947 hasImage
HasImage(clip) == clip.image # NoImage

\* mutant of monitorClipboardTick: the catch block forgets the last signature
monitorClipboardTickCatchResets(clip, t) ==
  IF consecutiveEmptyChecks > IDLE_CHECKS /\ t - lastClipboardCheck < currentCheckInterval
  THEN \* skip this check
       UNCHANGED <<storeVars, pollVars, pending>>
  ELSE
    /\ currentCheckInterval' =
         IF consecutiveEmptyChecks > IDLE_CHECKS
         THEN Min(currentCheckInterval + CHECK_INTERVAL_STEP, MAX_CHECK_INTERVAL)
         ELSE MIN_CHECK_INTERVAL
    /\ lastClipboardCheck' = t
    /\ IF clip.throws
       THEN \* clipboard.readImage / readText threw: caught at part_003:982
            /\ consecutiveEmptyChecks' = consecutiveEmptyChecks + 1
            /\ lastClipboardSignature' = NoSignature
            /\ UNCHANGED <<storeVars, pending>>
       ELSE IF HasImage(clip)
       THEN LET signature == [type |-> "image", value |-> ImageSignature(clip.image)]
            IN IF signature # lastClipboardSignature
               THEN /\ lastClipboardSignature' = signature
                    /\ consecutiveEmptyChecks' = 0
                    /\ pending' = pending \cup
                         {[stage |-> "scheduled", timer |-> t, img |-> clip.image,
                           signature |-> ImageSignature(clip.image)]}
                    /\ UNCHANGED storeVars
               ELSE /\ consecutiveEmptyChecks' = consecutiveEmptyChecks + 1
                    /\ UNCHANGED <<storeVars, lastClipboardSignature, pending>>
       ELSE IF clip.text # <<>> /\ ~IsBlank(clip.text)
       THEN LET currentText == truncateText(clip.text)
                signature == [type |-> "text", value |-> currentText]
            IN IF signature # lastClipboardSignature
               THEN /\ lastClipboardSignature' = signature
                    /\ consecutiveEmptyChecks' = 0
                    /\ addToHistory([type |-> "text", text |-> currentText], t)
                    /\ UNCHANGED pending
               ELSE /\ consecutiveEmptyChecks' = consecutiveEmptyChecks + 1
                    /\ UNCHANGED <<storeVars, lastClipboardSignature, pending>>
       ELSE /\ consecutiveEmptyChecks' = consecutiveEmptyChecks + 1
            /\ UNCHANGED <<storeVars, lastClipboardSignature, pending>>

\* mutant of backOff: the interval grows without the cap
backOffUncapped(interval) == interval + CHECK_INTERVAL_STEP

\* part_003:937 Math.min(currentCheckInterval + 500, MAX_CHECK_INTERVAL)
backOff(interval) == Min(interval + CHECK_INTERVAL_STEP, MAX_CHECK_INTERVAL)

\* part_003:928 the callback of the poll timer, running at time t with the
\* clipboard holding clip = [image, text, throws]
monitorClipboardTick(clip, t) ==
  IF consecutiveEmptyChecks > IDLE_CHECKS /\ t - lastClipboardCheck < currentCheckInterval
  THEN \* skip this check
       UNCHANGED <<storeVars, pollVars, pending>>
  ELSE
    /\ currentCheckInterval' =
         IF consecutiveEmptyChecks > IDLE_CHECKS
         THEN backOff(currentCheckInterval)
         ELSE MIN_CHECK_INTERVAL
    /\ lastClipboardCheck' = t
    /\ IF clip.throws
       THEN \* clipboard.readImage / readText threw: caught at part_003:982
            /\ consecutiveEmptyChecks' = consecutiveEmptyChecks + 1
            /\ UNCHANGED <<storeVars, lastClipboardSignature, pending>>
       ELSE IF HasImage(clip)
       THEN LET signature == [type |-> "image", value |-> ImageSignature(clip.image)]
            IN IF signature # lastClipboardSignature
               THEN /\ lastClipboardSignature' = signature
                    /\ consecutiveEmptyChecks' = 0
                    /\ pending' = pending \cup
                         {[stage |-> "scheduled", timer |-> t, img |-> clip.image,
                           signature |-> ImageSignature(clip.image)]}
                    /\ UNCHANGED storeVars
               ELSE /\ consecutiveEmptyChecks' = consecutiveEmptyChecks + 1
                    /\ UNCHANGED <<storeVars, lastClipboardSignature, pending>>
       ELSE IF clip.text # <<>> /\ ~IsBlank(clip.text)
       THEN LET currentText == truncateText(clip.text)
                signature == [type |-> "text", value |-> currentText]
            IN IF signature # lastClipboardSignature
               THEN /\ lastClipboardSignature' = signature
                    /\ consecutiveEmptyChecks' = 0
                    /\ addToHistory([type |-> "text", text |-> currentText], t)
                    /\ UNCHANGED pending
               ELSE /\ consecutiveEmptyChecks' = consecutiveEmptyChecks + 1
                    /\ UNCHANGED <<storeVars, lastClipboardSignature, pending>>
       ELSE /\ consecutiveEmptyChecks' = consecutiveEmptyChecks + 1
            /\ UNCHANGED <<storeVars, lastClipboardSignature, pending>>

\* part_003:958 the 10 ms timer of the poll fires: processImageClipboard
\* registers the tracked 1 ms timer (part_003:1023)
processImageClipboard(task) ==
  /\ task \in pending
  /\ task.stage = "scheduled"
  /\ pending' = (pending \ {task}) \cup {[task EXCEPT !.stage = "tracked"]}
  /\ UNCHANGED <<storeVars, pollVars, settings, nextId, lastMemoryCleanup, now>>

\* mutant of processImage: the entry is handed to setImmediate after the
\* full image is written and before the thumbnail is
processImageBeforeThumbnail(task, fullOk, thumbOk) ==
  /\ task \in pending
  /\ task.stage = "tracked"
  /\ files' = files \cup (IF fullOk THEN {nextId} ELSE {})
  /\ pending' = (pending \ {task}) \cup
       {[stage |-> "written", timer |-> task.timer, img |-> task.img,
         signature |-> task.signature,
         id |-> nextId, filePath |-> nextId, thumbPath |-> nextId + 1]}
  /\ nextId' = nextId + 1
  /\ UNCHANGED <<clipboardHistory, textCache, imageCache, clipboardCache, store,
                 unlinks, rendererView, pollVars, settings, lastMemoryCleanup, now>>

\* part_003:992 processImage (the 1 ms timer, then process.nextTick): the
\* files are written and addToHistory is deferred with setImmediate.
\* fullOk: fs.writeFileSync of saveImagePng succeeds (part_003:1163);
\* thumbOk: saveThumbnailWebP or its PNG fallback writes the thumbnail,
\* otherwise thumbPath is null (part_003:1203)
processImage(task, fullOk, thumbOk) ==
  /\ task \in pending
  /\ task.stage = "tracked"
  /\ LET id == nextId
         thumbPath == IF thumbOk THEN nextId + 1 ELSE NoFile
     IN /\ files' = files \cup (IF fullOk THEN {id} ELSE {})
                          \cup (IF thumbOk THEN {thumbPath} ELSE {})
        /\ pending' = (pending \ {task}) \cup
             {[stage |-> "written", timer |-> task.timer, img |-> task.img,
               signature |-> task.signature,
               id |-> id, filePath |-> id, thumbPath |-> thumbPath]}
  /\ nextId' = nextId + 2
  /\ UNCHANGED <<clipboardHistory, textCache, imageCache, clipboardCache, store,
                 unlinks, rendererView, pollVars, settings, lastMemoryCleanup, now>>

\* part_003:1006 the setImmediate callback: addToHistory of the image
addImageToHistory(task) ==
  /\ task \in pending
  /\ task.stage = "written"
  /\ addToHistory([type |-> "image", id |-> task.id, filePath |-> task.filePath,
                   width |-> task.img.width, height |-> task.img.height,
                   thumbPath |-> task.thumbPath, signature |-> task.signature], now)
  /\ pending' = pending \ {task}
  /\ UNCHANGED <<pollVars, settings, nextId, lastMemoryCleanup, now>>

-----------------------------------------------------------------------------
(* Commands of the user: clear, settings; restart of the application.      *)

\* part_003:1593 ipcMain.handle('clear-history')
clearHistoryIpc ==
  LET fs0 == [files |-> files, unlinks |-> unlinks]
      fs1 == DeleteFilesOf(fs0, clipboardHistory)
      fs2 == LRUClearFiles(clipboardCache, fs1)
  IN /\ clipboardHistory' = <<>>
     /\ textCache' = {}
     /\ imageCache' = {}
     /\ clipboardCache' = <<>>
     /\ files' = fs2.files
     /\ unlinks' = fs2.unlinks
     /\ store' = [store EXCEPT !.clipboardHistory = Missing(<<>>)]
     /\ rendererView' = <<>>
     /\ UNCHANGED <<pollVars, settings, nextId, pending, lastMemoryCleanup, now>>

\* part_003:744 tray menu 'Clear History'; its message goes to the channel
\* 'history-updated', not to 'clipboard-updated'
clearHistoryTray ==
  /\ clipboardHistory' = <<>>
  /\ textCache' = {}
  /\ imageCache' = {}
  /\ store' = [store EXCEPT !.clipboardHistory = Saved(<<>>)]
  /\ UNCHANGED <<clipboardCache, files, unlinks, rendererView, pollVars, settings,
                 nextId, pending, lastMemoryCleanup, now>>

\* part_003:1650 ipcMain.handle('update-settings') with partial = {maxHistory: value}
updateSettings(value) ==
  LET newSettings == [settings EXCEPT !.maxHistory = value]
      max == MaxHistoryOf(newSettings)
      fs0 == [files |-> files, unlinks |-> unlinks]
      fs1 == DeleteFullFilesOf(fs0, ToRemove(clipboardHistory, max))
  IN /\ settings' = newSettings
     /\ store' = [store EXCEPT !.settings = Saved(newSettings)]
     /\ clipboardHistory' = LimitHistory(clipboardHistory, max)
     /\ files' = fs1.files
     /\ unlinks' = fs1.unlinks
     /\ UNCHANGED <<textCache, imageCache, clipboardCache, rendererView, pollVars,
                    nextId, pending, lastMemoryCleanup, now>>

\* part_003:1132 loadHistory, text migration of one saved item
MigrateItem(item) ==
  IF IsText(item) /\ ~item.text.compressed /\ Len(item.text.data) > MAX_TEXT_SIZE
  THEN [item EXCEPT !.text = Plain(truncateText(item.text.data))]
  ELSE item

\* part_003:1114 loadHistory: the history read from store.get('clipboardHistory', [])
LoadedHistory(saved) ==
  [i \in 1..Len(saved.value) |-> MigrateItem(saved.value[i])]

\* The process ends and the application is launched again: module
\* initialisation (part_003:198, 354-371, 915-920) and app.whenReady
\* (part_003:1410), which calls loadHistory
restart ==
  LET loaded == LoadedHistory(store.clipboardHistory)
  IN /\ settings' = store.settings.value
     /\ clipboardHistory' = loaded
     /\ store' = IF loaded # store.clipboardHistory.value
                 THEN [store EXCEPT !.clipboardHistory = Saved(loaded)]
                 ELSE store
     /\ textCache' = RebuildTextCache(loaded)
     /\ imageCache' = RebuildImageCache(loaded)
     /\ clipboardCache' = <<>>
     /\ pending' = {}
     /\ lastClipboardSignature' = NoSignature
     /\ lastClipboardCheck' = 0
     /\ consecutiveEmptyChecks' = 0
     /\ currentCheckInterval' = MIN_CHECK_INTERVAL
     /\ lastMemoryCleanup' = 0
     /\ rendererView' = <<>>
     /\ UNCHANGED <<files, unlinks, nextId, now>>

\* part_003:1463 app.on('before-quit') and part_003:1485 app.on('will-quit'):
\* clearPendingPasteTimers (part_003:500) cancels the paste timers;
\* clearImageProcessingTimeouts cancels the tracked 1 ms timers
\* (part_003:505); the 10 ms timer of the poll (part_003:958) and the
\* setImmediate callback (part_003:1006) are in no collection and stay;
\* clearMemoryMonitoring and clearClipboardMonitoring stop the two intervals
shutdownCleanup ==
  /\ pending' = {task \in pending : task.stage # "tracked"}
  /\ clipboardMonitorInterval' = FALSE
  /\ memoryLogInterval' = FALSE
  /\ pendingPasteTimers' = {}
  /\ pollTimers' = IF clipboardMonitorInterval THEN pollTimers - 1 ELSE pollTimers
  /\ memoryTimers' = IF memoryLogInterval THEN memoryTimers - 1 ELSE memoryTimers
  /\ UNCHANGED <<storeVars, pollVars, settings, nextId, lastMemoryCleanup, now,
                 pasteSessionCompleted, platform, keystrokes, truncateCalls,
                 lastThumbnail>>

-----------------------------------------------------------------------------
(* MemoryGovernor.                                                         *)

\* part_003:292 cleanupOrphanedImageFiles: the files that are not referenced
IsReferenced(file, history) ==
  \E i \in 1..Len(history) :
    /\ IsImage(history[i])
    /\ \/ history[i].id = file
       \/ history[i].filePath = file
       \/ history[i].thumbPath = file

\* part_003:292 cleanupOrphanedImageFiles
cleanupOrphanedImageFiles(fs, history) ==
  LET orphans == {f \in fs.files : ~IsReferenced(f, history)}
  IN [files   |-> fs.files \ orphans,
      unlinks |-> [once  |-> fs.unlinks.once \cup orphans,
                   again |-> fs.unlinks.again \cup (orphans \cap fs.unlinks.once)]]

\* part_003:263 the entries clipboardHistory.splice(0, toRemove) removes
CleanupRemoved(history) ==
  IF Len(history) > MAX_HISTORY_SIZE
  THEN SubSeq(history, 1, Len(history) - MAX_HISTORY_SIZE)
  ELSE <<>>

\* part_003:263 the entries left in clipboardHistory after the splice
CleanupKept(history) ==
  IF Len(history) > MAX_HISTORY_SIZE
  THEN SubSeq(history, Len(history) - MAX_HISTORY_SIZE + 1, Len(history))
  ELSE history

\* mutant of performMemoryCleanup: the cooldown is not consulted
performMemoryCleanupNoCooldown(aggressive) ==
  LET fs0 == [files |-> files, unlinks |-> unlinks]
      fs1 == IF aggressive THEN cleanupOrphanedImageFiles(fs0, clipboardHistory) ELSE fs0
      fs2 == DeleteFilesOf(fs1, CleanupRemoved(clipboardHistory))
      kept == CleanupKept(clipboardHistory)
  IN /\ lastMemoryCleanup' = now
     /\ clipboardHistory' = kept
     /\ files' = fs2.files
     /\ unlinks' = fs2.unlinks
     /\ textCache' = RebuildTextCache(kept)
     /\ imageCache' = RebuildImageCache(kept)
     /\ UNCHANGED <<clipboardCache, store, rendererView>>

\* part_003:242 performMemoryCleanup
performMemoryCleanup(aggressive) ==
  IF now - lastMemoryCleanup < MEMORY_CLEANUP_COOLDOWN /\ ~aggressive
  THEN UNCHANGED <<storeVars, lastMemoryCleanup>>
  ELSE LET fs0 == [files |-> files, unlinks |-> unlinks]
           fs1 == IF aggressive THEN cleanupOrphanedImageFiles(fs0, clipboardHistory) ELSE fs0
           fs2 == DeleteFilesOf(fs1, CleanupRemoved(clipboardHistory))
           kept == CleanupKept(clipboardHistory)
       IN /\ lastMemoryCleanup' = now
          /\ clipboardHistory' = kept
          /\ files' = fs2.files
          /\ unlinks' = fs2.unlinks
          /\ textCache' = RebuildTextCache(kept)
          /\ imageCache' = RebuildImageCache(kept)
          /\ UNCHANGED <<clipboardCache, store, rendererView>>

\* mutant of monitorMemoryUsage: the aggressive cleanup starts at the threshold
monitorMemoryUsageAtThreshold(heapUsed) ==
  /\ IF heapUsed >= AGGRESSIVE_CLEANUP_THRESHOLD
     THEN performMemoryCleanup(TRUE)
     ELSE IF heapUsed > MEMORY_CLEANUP_THRESHOLD
     THEN performMemoryCleanup(FALSE)
     ELSE UNCHANGED <<storeVars, lastMemoryCleanup>>
  /\ UNCHANGED <<pollVars, settings, nextId, pending, now>>

\* part_003:328 monitorMemoryUsage, the callback of the memory timer, with
\* process.memoryUsage().heapUsed = heapUsed MB
monitorMemoryUsage(heapUsed) ==
  /\ IF heapUsed > AGGRESSIVE_CLEANUP_THRESHOLD
     THEN performMemoryCleanup(TRUE)
     ELSE IF heapUsed > MEMORY_CLEANUP_THRESHOLD
     THEN performMemoryCleanup(FALSE)
     ELSE UNCHANGED <<storeVars, lastMemoryCleanup>>
  /\ UNCHANGED <<pollVars, settings, nextId, pending, now>>

-----------------------------------------------------------------------------
(* The store specification: what the clipboard holds at a poll, the        *)
(* outcome of the file writes, the memory samples and the settings the     *)
(* user chooses are inputs.                                                *)

TextClip(text) == [image |-> NoImage, text |-> text, throws |-> FALSE]
ImageClip(img) == [image |-> img, text |-> <<>>, throws |-> FALSE]

\* what the user copies in the store specification: a short text, a text of
\* COMPRESSION_THRESHOLD characters and an image
StoreTexts == {<<"a">>, <<"a", "a", "a">>}
StoreImages == {[bytes |-> 1, width |-> 1, height |-> 1]}
StoreClips == {TextClip(t) : t \in StoreTexts} \cup {ImageClip(i) : i \in StoreImages}

SettingValues == {Num(n, 1) : n \in 1..MaxCapacity}

\* at most one of the two writes of an ingestion fails
WriteOutcomes == {<<TRUE, TRUE>>, <<FALSE, TRUE>>, <<TRUE, FALSE>>}

\* the signature the poll computes for a clip (part_003:952, 971)
ClipSignature(clip) ==
  IF HasImage(clip) THEN [type |-> "image", value |-> ImageSignature(clip.image)]
  ELSE [type |-> "text", value |-> truncateText(clip.text)]

\* module initialisation of the paste state (part_003:366, 369) and the
\* timers whenReady starts (part_003:1417, 1420), on platform p
NoThumbnail == [width |-> 0, height |-> 0]

InitSession(p) ==
  /\ pasteSessionCompleted = FALSE
  /\ pendingPasteTimers = {}
  /\ platform = p
  /\ keystrokes = 0
  /\ pollTimers = 1
  /\ memoryTimers = 1
  /\ truncateCalls = 0
  /\ lastThumbnail = NoThumbnail

HeapSamples == {MEMORY_CLEANUP_THRESHOLD, AGGRESSIVE_CLEANUP_THRESHOLD,
                AGGRESSIVE_CLEANUP_THRESHOLD + 1}

\* module initialisation (part_003:198, 354-371, 915-920) with an empty store
InitEngine ==
  /\ clipboardHistory = <<>>
  /\ textCache = {}
  /\ imageCache = {}
  /\ clipboardCache = <<>>
  /\ settings = DEFAULT_SETTINGS
  /\ store = [clipboardHistory |-> Missing(<<>>), settings |-> Missing(DEFAULT_SETTINGS)]
  /\ files = {}
  /\ unlinks = [once |-> {}, again |-> {}]
  /\ nextId = 0
  /\ pending = {}
  /\ lastClipboardSignature = NoSignature
  /\ lastClipboardCheck = 0
  /\ consecutiveEmptyChecks = 0
  /\ currentCheckInterval = MIN_CHECK_INTERVAL
  /\ lastMemoryCleanup = 0
  /\ rendererView = <<>>
  /\ copied = <<>>
  /\ clipboardMonitorInterval = TRUE
  /\ memoryLogInterval = TRUE
  /\ now = StartTime

Init == InitEngine /\ InitSession("linux")

\* the poll timer fires POLL_PERIOD after the previous tick
Poll ==
  /\ clipboardMonitorInterval
  /\ now < StartTime + MaxPolls * POLL_PERIOD
  /\ \E clip \in StoreClips :
       /\ HasImage(clip) => Cardinality(pending) < MaxPending /\ nextId < 2 * MaxImages
       /\ ClipSignature(clip) = lastClipboardSignature => consecutiveEmptyChecks < MaxIdlePolls
       /\ monitorClipboardTick(clip, now + POLL_PERIOD)
  /\ now' = now + POLL_PERIOD
  /\ UNCHANGED <<settings, nextId, lastMemoryCleanup, copied, timerVars>>

ProcessImageClipboard ==
  /\ \E task \in pending : processImageClipboard(task)
  /\ UNCHANGED <<copied, timerVars>>

ProcessImage ==
  /\ \E task \in pending : \E ok \in WriteOutcomes : processImage(task, ok[1], ok[2])
  /\ UNCHANGED <<copied, timerVars>>

AddImageToHistory ==
  /\ \E task \in pending : addImageToHistory(task)
  /\ UNCHANGED <<copied, timerVars>>

ClearHistoryIpc == clearHistoryIpc /\ UNCHANGED <<copied, timerVars>>

ClearHistoryTray == clearHistoryTray /\ UNCHANGED <<copied, timerVars>>

UpdateSettings ==
  /\ \E value \in SettingValues : updateSettings(value)
  /\ UNCHANGED <<copied, timerVars>>

MonitorMemoryUsage ==
  /\ memoryLogInterval
  /\ \E heapUsed \in HeapSamples : monitorMemoryUsage(heapUsed)
  /\ UNCHANGED <<copied, timerVars>>

\* whenReady starts both timers (part_003:1417, 1420)
Restart ==
  /\ restart
  /\ clipboardMonitorInterval' = TRUE
  /\ memoryLogInterval' = TRUE
  /\ pasteSessionCompleted' = FALSE
  /\ pendingPasteTimers' = {}
  /\ keystrokes' = 0
  /\ pollTimers' = 1
  /\ memoryTimers' = 1
  /\ UNCHANGED <<copied, platform, truncateCalls, lastThumbnail>>

Next ==
  \/ Poll
  \/ ProcessImageClipboard
  \/ ProcessImage
  \/ AddImageToHistory
  \/ ClearHistoryIpc
  \/ ClearHistoryTray
  \/ UpdateSettings
  \/ MonitorMemoryUsage
  \/ Restart

Spec == Init /\ [][Next]_vars

-----------------------------------------------------------------------------
(* The copy specification: the user only copies; the capacity is the       *)
(* default or was raised to MaxCapacity by an earlier update-settings.     *)
(* copied records the items handed to addToHistory.                        *)

\* what the user copies in the copy specification: also a second text with
\* the cache-key prefix of the first, a second image, and a third image with
\* the width and height of the first
CopyTexts == StoreTexts \cup {<<"a", "a", "b">>}
CopyImages == StoreImages \cup {[bytes |-> 2, width |-> 2, height |-> 2],
                                [bytes |-> 3, width |-> 1, height |-> 1]}
CopyClips == {TextClip(t) : t \in CopyTexts} \cup {ImageClip(i) : i \in CopyImages}

InitCopy ==
  /\ \/ /\ settings = DEFAULT_SETTINGS
        /\ store = [clipboardHistory |-> Missing(<<>>), settings |-> Missing(DEFAULT_SETTINGS)]
     \/ /\ settings = [maxHistory |-> Num(MaxCapacity, 1)]
        /\ store = [clipboardHistory |-> Missing(<<>>), settings |-> Saved(settings)]
  /\ clipboardHistory = <<>>
  /\ textCache = {}
  /\ imageCache = {}
  /\ clipboardCache = <<>>
  /\ files = {}
  /\ unlinks = [once |-> {}, again |-> {}]
  /\ nextId = 0
  /\ pending = {}
  /\ lastClipboardSignature = NoSignature
  /\ lastClipboardCheck = 0
  /\ consecutiveEmptyChecks = 0
  /\ currentCheckInterval = MIN_CHECK_INTERVAL
  /\ lastMemoryCleanup = 0
  /\ rendererView = <<>>
  /\ copied = <<>>
  /\ clipboardMonitorInterval = TRUE
  /\ memoryLogInterval = TRUE
  /\ InitSession("linux")
  /\ now = StartTime

CopyPoll ==
  /\ clipboardMonitorInterval
  /\ now < StartTime + MaxCopies * POLL_PERIOD
  /\ \E clip \in CopyClips :
       /\ HasImage(clip) => Cardinality(pending) < MaxPending /\ nextId < 2 * MaxImages
       /\ ClipSignature(clip) = lastClipboardSignature => consecutiveEmptyChecks < MaxIdlePolls
       /\ monitorClipboardTick(clip, now + POLL_PERIOD)
       /\ copied' = IF ~HasImage(clip) /\ ClipSignature(clip) # lastClipboardSignature
                    THEN Append(copied, [type |-> "text", text |-> truncateText(clip.text)])
                    ELSE copied
  /\ now' = now + POLL_PERIOD
  /\ UNCHANGED <<settings, nextId, lastMemoryCleanup, timerVars>>

CopyProcessImageClipboard ==
  /\ \E task \in pending : processImageClipboard(task)
  /\ UNCHANGED <<copied, timerVars>>

CopyProcessImage ==
  /\ \E task \in pending : \E ok \in WriteOutcomes : processImage(task, ok[1], ok[2])
  /\ UNCHANGED <<copied, timerVars>>

CopyAddImageToHistory ==
  \E task \in pending :
    /\ addImageToHistory(task)
    /\ copied' = Append(copied, [type |-> "image", img |-> task.img])
    /\ UNCHANGED timerVars

NextCopy ==
  \/ CopyPoll
  \/ CopyProcessImageClipboard
  \/ CopyProcessImage
  \/ CopyAddImageToHistory

SpecCopy == InitCopy /\ [][NextCopy]_vars

-----------------------------------------------------------------------------
(* The quit specification: the user copies, the timers run, and the        *)
(* application is told to quit at any moment; the event loop keeps         *)
(* running between before-quit, will-quit and the end of the process.      *)

ShutdownCleanup == shutdownCleanup /\ UNCHANGED copied

NextQuit ==
  \/ Poll
  \/ ProcessImageClipboard
  \/ ProcessImage
  \/ AddImageToHistory
  \/ MonitorMemoryUsage
  \/ ShutdownCleanup

SpecQuit == Init /\ [][NextQuit]_vars

-----------------------------------------------------------------------------
(* The text specification: the user copies one text of up to MaxTextLen    *)
(* code units, with surrogates; the overlay is shown with the hotkey; the  *)
(* application restarts; the file of the store may have been changed       *)
(* outside the application before loadHistory reads it.                    *)

\* code units: a BMP character, a high surrogate, a low surrogate
TextAlphabet == {"a", "H", "L"}

PolicyTexts == UNION {[1..n -> TextAlphabet] : n \in 1..MaxTextLen}

\* a base64 string zlib.inflateSync rejects
DamagedData == <<"!">>

\* a saved item whose compressed text was changed in the file of the store
Damage(item) ==
  IF IsText(item) /\ item.text.compressed
  THEN [item EXCEPT !.text = [@ EXCEPT !.data = DamagedData]]
  ELSE item

\* part_003:1441 the hotkey shows the overlay: sendHistoryToRenderer
showOverlay ==
  /\ rendererView' = LightweightHistory(clipboardCache, clipboardHistory, files)
  /\ UNCHANGED <<clipboardHistory, textCache, imageCache, clipboardCache, store,
                 files, unlinks, pollVars, settings, nextId, pending,
                 lastMemoryCleanup, now>>

\* the file store.get('clipboardHistory') reads (part_003:1116) is damaged:
\* loadHistory takes the saved items as they are
storeDamaged ==
  /\ store.clipboardHistory.value # <<>>
  /\ store' = [store EXCEPT !.clipboardHistory =
                 Saved([i \in 1..Len(store.clipboardHistory.value) |->
                          Damage(store.clipboardHistory.value[i])])]
  /\ UNCHANGED <<clipboardHistory, textCache, imageCache, clipboardCache,
                 files, unlinks, rendererView, pollVars, settings, nextId, pending,
                 lastMemoryCleanup, now>>

\* the poll timer fires with the text on the clipboard; copied records the
\* text as the clipboard held it
TextPoll ==
  /\ clipboardMonitorInterval
  /\ now < StartTime + MaxTextPolls * POLL_PERIOD
  /\ \E text \in PolicyTexts :
       /\ monitorClipboardTick(TextClip(text), now + POLL_PERIOD)
       /\ copied' = Append(copied, [type |-> "text", text |-> text])
  /\ now' = now + POLL_PERIOD
  /\ UNCHANGED <<settings, nextId, lastMemoryCleanup, timerVars>>

ShowOverlay == showOverlay /\ UNCHANGED <<copied, timerVars>>

StoreDamaged == storeDamaged /\ UNCHANGED <<copied, timerVars>>

NextText ==
  \/ TextPoll
  \/ ShowOverlay
  \/ StoreDamaged
  \/ Restart

SpecText == Init /\ [][NextText]_vars

-----------------------------------------------------------------------------
(* The governor specification: the user copies one new text after the      *)
(* other while the memory timer samples the heap; the capacity is the      *)
(* default or was set above MAX_HISTORY_SIZE by an earlier update-settings. *)

\* the texts the user copies, in this order; no two share a cache key
GovLetters == <<"a", "b", "c", "d", "e", "f", "g", "h">>

GovText(n) == <<GovLetters[n]>>

InitGovernor ==
  /\ \/ /\ settings = DEFAULT_SETTINGS
        /\ store = [clipboardHistory |-> Missing(<<>>), settings |-> Missing(DEFAULT_SETTINGS)]
     \/ /\ settings = [maxHistory |-> Num(MAX_HISTORY_SIZE + 2, 1)]
        /\ store = [clipboardHistory |-> Missing(<<>>), settings |-> Saved(settings)]
  /\ clipboardHistory = <<>>
  /\ textCache = {}
  /\ imageCache = {}
  /\ clipboardCache = <<>>
  /\ files = {}
  /\ unlinks = [once |-> {}, again |-> {}]
  /\ nextId = 0
  /\ pending = {}
  /\ lastClipboardSignature = NoSignature
  /\ lastClipboardCheck = 0
  /\ consecutiveEmptyChecks = 0
  /\ currentCheckInterval = MIN_CHECK_INTERVAL
  /\ lastMemoryCleanup = 0
  /\ rendererView = <<>>
  /\ copied = <<>>
  /\ clipboardMonitorInterval = TRUE
  /\ memoryLogInterval = TRUE
  /\ InitSession("linux")
  /\ now = StartTime

\* what the clipboard can hold at the poll that runs at time t: the next
\* text, or an image
GovClips(t) ==
  {TextClip(GovText((t - StartTime) \div POLL_PERIOD))} \cup {ImageClip(i) : i \in StoreImages}

\* the poll timer fires
GovPoll ==
  /\ clipboardMonitorInterval
  /\ now < StartTime + MaxGovPolls * POLL_PERIOD
  /\ \E clip \in GovClips(now + POLL_PERIOD) :
       /\ HasImage(clip) => Cardinality(pending) < MaxPending /\ nextId < 2 * MaxImages
       /\ ClipSignature(clip) = lastClipboardSignature => consecutiveEmptyChecks < MaxIdlePolls
       /\ monitorClipboardTick(clip, now + POLL_PERIOD)
  /\ now' = now + POLL_PERIOD
  /\ UNCHANGED <<settings, nextId, lastMemoryCleanup, copied, timerVars>>

NextGovernor ==
  \/ GovPoll
  \/ ProcessImageClipboard
  \/ ProcessImage
  \/ AddImageToHistory
  \/ MonitorMemoryUsage

SpecGovernor == InitGovernor /\ [][NextGovernor]_vars

-----------------------------------------------------------------------------
(* The read specification: at a poll the clipboard read throws, or the     *)
(* clipboard is empty, or it holds whitespace, a text or an image; copied  *)
(* records what each poll read.                                            *)

ThrowingClip == [image |-> NoImage, text |-> <<>>, throws |-> TRUE]

\* readImage returns an empty image and readText returns ''
EmptyClip == TextClip(<<>>)

ReadTexts == {<<" ">>, <<"a">>, <<"b">>}

ReadClips ==
  {ThrowingClip, EmptyClip} \cup {TextClip(t) : t \in ReadTexts}
                            \cup {ImageClip(i) : i \in StoreImages}

\* what a poll read from the clipboard
ReadOf(clip) ==
  IF clip.throws THEN [type |-> "throw"]
  ELSE IF HasImage(clip) THEN [type |-> "image", img |-> clip.image]
  ELSE IF clip.text = <<>> THEN [type |-> "empty"]
  ELSE [type |-> "text", text |-> clip.text]

\* the poll timer fires with clip on the clipboard
ReadPollOf(clip) ==
  /\ now < StartTime + MaxReadPolls * POLL_PERIOD
  /\ HasImage(clip) => Cardinality(pending) < MaxPending /\ nextId < 2 * MaxImages
  /\ monitorClipboardTick(clip, now + POLL_PERIOD)
  /\ copied' = Append(copied, ReadOf(clip))
  /\ now' = now + POLL_PERIOD
  /\ UNCHANGED <<settings, nextId, lastMemoryCleanup, timerVars>>

ReadPoll ==
  /\ clipboardMonitorInterval
  /\ \E clip \in ReadClips : ReadPollOf(clip)

NextRead ==
  \/ ReadPoll
  \/ ProcessImageClipboard
  \/ ProcessImage
  \/ AddImageToHistory

SpecRead == Init /\ [][NextRead]_vars

-----------------------------------------------------------------------------
(* The settings specification: update-settings receives any value for      *)
(* maxHistory: not a number, zero, negative, a fraction, an integer.        *)

CapacityValues ==
  {NotANumber, Num(0, 1), Num(0 - 1, 1), Num(1, 2), Num(3, 2)} \cup SettingValues

SetCapacity ==
  /\ \E value \in CapacityValues : updateSettings(value)
  /\ UNCHANGED <<copied, timerVars>>

NextSettings ==
  \/ SetCapacity
  \/ Poll
  \/ Restart

SpecSettings == Init /\ [][NextSettings]_vars

-----------------------------------------------------------------------------
(* The paste specification: the renderer asks for a paste (paste-item);    *)
(* the overlay is hidden and the timers of schedulePasteRetries fire in    *)
(* the order of their delays; robot.keyTap and spawn succeed or throw; a   *)
(* new request can arrive while timers of the previous one are pending.    *)

Platforms == {"win32", "darwin", "linux"}

\* part_003:538 the delays of the keystroke attempts
PasteDelays(p) ==
  IF p = "win32" THEN {140, 260, 420, 650}
  ELSE IF p = "darwin" THEN {60, 140, 260}
  ELSE {120, 240, 400}

\* part_003:552, 567 the fallback runs this long after the last attempt
FALLBACK_DELAY == 180

\* part_003:581 the delays of the diagnostic timers
DiagnosticDelays == {120, 300, 600, 900}

MaxOf(S) == CHOOSE x \in S : \A y \in S : y <= x

\* part_003:536 schedulePasteRetries: the timers pushed to pendingPasteTimers
schedulePasteRetries(p) ==
  {[kind |-> "keystroke", delay |-> d] : d \in PasteDelays(p)}
  \cup (IF p \in {"win32", "darwin"}
        THEN {[kind |-> "fallback", delay |-> MaxOf(PasteDelays(p)) + FALLBACK_DELAY]}
        ELSE {})
  \cup {[kind |-> "diagnostic", delay |-> d] : d \in DiagnosticDelays}

\* the payloads of paste-item: a text, an image as data URL (which
\* nativeImage may reject), an image by id, anything else
PastePayloads ==
  {[type |-> "text"], [type |-> "image", dataUrl |-> TRUE], [type |-> "image", dataUrl |-> FALSE],
   [type |-> "image", id |-> 1], [type |-> "other"]}

\* part_003:1505 ipcMain.handle('paste-item'): TRUE when the clipboard was
\* written and the handler goes on to schedule the keystrokes
PasteWritesClipboard(payload) ==
  IF payload.type = "text" THEN TRUE
  ELSE IF payload.type = "image" /\ "dataUrl" \in DOMAIN payload THEN payload.dataUrl
  ELSE IF payload.type = "image" /\ "id" \in DOMAIN payload
  THEN \E i \in 1..Len(clipboardHistory) :
         /\ IsImage(clipboardHistory[i])
         /\ clipboardHistory[i].id = payload.id
         /\ clipboardHistory[i].filePath # NoFile
         /\ clipboardHistory[i].filePath \in files
  ELSE FALSE

\* part_003:1505 ipcMain.handle('paste-item')
pasteItem(payload) ==
  IF PasteWritesClipboard(payload)
  THEN /\ pasteSessionCompleted' = FALSE
       /\ pendingPasteTimers' = schedulePasteRetries(platform)
       /\ keystrokes' = 0
       /\ UNCHANGED platform
  ELSE UNCHANGED pasteVars

\* the callback of a paste timer: part_003:524 simulatePasteKeystroke,
\* part_003:553 and 568 the fallbacks, part_003:582 the diagnostic;
\* sent is FALSE when robot.keyTap or spawn throws
pasteTimer(timer, sent) ==
  /\ pendingPasteTimers' = pendingPasteTimers \ {timer}
  /\ keystrokes' = IF timer.kind \in {"keystroke", "fallback"} /\ sent
                   THEN keystrokes + 1
                   ELSE keystrokes
  /\ UNCHANGED <<pasteSessionCompleted, platform>>

engineVars == <<storeVars, pollVars, settings, nextId, pending, lastMemoryCleanup,
                copied, clipboardMonitorInterval, memoryLogInterval, liveTimers,
                truncateCalls, lastThumbnail, now>>

InitPaste == InitEngine /\ \E p \in Platforms : InitSession(p)

PasteItem ==
  /\ \E payload \in PastePayloads : pasteItem(payload)
  /\ UNCHANGED engineVars

PasteTimer ==
  /\ \E timer \in pendingPasteTimers :
       /\ \A other \in pendingPasteTimers : timer.delay <= other.delay
       /\ \E sent \in BOOLEAN : pasteTimer(timer, sent)
  /\ UNCHANGED engineVars

\* part_003:901 mainWindow.on('closed'): clearPendingPasteTimers and
\* clearImageProcessingTimeouts
mainWindowClosed ==
  /\ pendingPasteTimers' = {}
  /\ pending' = {task \in pending : task.stage # "tracked"}
  /\ UNCHANGED <<storeVars, pollVars, settings, nextId, lastMemoryCleanup, now,
                 clipboardMonitorInterval, memoryLogInterval, liveTimers,
                 pasteSessionCompleted, platform, keystrokes, truncateCalls,
                 lastThumbnail>>

MainWindowClosed ==
  /\ pendingPasteTimers # {}
  /\ mainWindowClosed
  /\ UNCHANGED copied

PasteShutdownCleanup ==
  /\ clipboardMonitorInterval
  /\ shutdownCleanup
  /\ UNCHANGED copied

NextPaste ==
  \/ PasteItem
  \/ PasteTimer
  \/ MainWindowClosed
  \/ PasteShutdownCleanup

SpecPaste == InitPaste /\ [][NextPaste]_vars

-----------------------------------------------------------------------------
(* The idle specification: the poll timer ticks MaxIdleTicks times while   *)
(* the user copies one of two texts now and then, so that the clipboard    *)
(* stays unchanged for long runs of polls and the back-off reaches the     *)
(* largest interval.                                                       *)

IdleClips == {TextClip(<<"a">>), TextClip(<<"b">>)}

IdlePoll ==
  /\ clipboardMonitorInterval
  /\ now < StartTime + MaxIdleTicks * POLL_PERIOD
  /\ \E clip \in IdleClips : monitorClipboardTick(clip, now + POLL_PERIOD)
  /\ now' = now + POLL_PERIOD
  /\ UNCHANGED <<settings, nextId, lastMemoryCleanup, copied, timerVars>>

NextIdle == IdlePoll

SpecIdle == Init /\ [][NextIdle]_vars

-----------------------------------------------------------------------------
(* The ingestion specification: the user copies one text of up to          *)
(* MaxIngestLen characters; the history is cleared; the application        *)
(* restarts.  truncateCalls counts the calls of truncateText an ingestion  *)
(* makes on the copied text.                                               *)

IngestTexts == UNION {[1..n -> {"a", "b"}] : n \in 1..MaxIngestLen}

\* part_003:1266 processText: its calls of truncateText
TruncateCallsOfProcessText(text) == IF text = <<>> THEN 0 ELSE 1

\* part_003:1032 addToHistory: processText runs unless the LRU cache holds
\* the key (part_003:1040)
TruncateCallsOfAddToHistory(item) ==
  IF item.type = "text" /\ ~LRUHas(clipboardCache, CacheKey(item))
  THEN TruncateCallsOfProcessText(item.text)
  ELSE 0

\* part_003:966 the text branch of the poll: truncateText at part_003:970,
\* then addToHistory when the signature is new
TruncateCallsOfPoll(text) ==
  LET currentText == truncateText(text)
  IN 1 + (IF [type |-> "text", value |-> currentText] # lastClipboardSignature
          THEN TruncateCallsOfAddToHistory([type |-> "text", text |-> currentText])
          ELSE 0)

IngestPoll ==
  /\ clipboardMonitorInterval
  /\ now < StartTime + MaxIngestPolls * POLL_PERIOD
  /\ \E text \in IngestTexts :
       /\ monitorClipboardTick(TextClip(text), now + POLL_PERIOD)
       /\ truncateCalls' = TruncateCallsOfPoll(text)
  /\ now' = now + POLL_PERIOD
  /\ UNCHANGED <<settings, nextId, lastMemoryCleanup, copied, clipboardMonitorInterval,
                 memoryLogInterval, pasteVars, liveTimers, lastThumbnail>>

NextIngest ==
  \/ IngestPoll
  \/ ClearHistoryIpc
  \/ Restart

SpecIngest == Init /\ [][NextIngest]_vars

-----------------------------------------------------------------------------
(* The preference specification: at a poll the clipboard holds a text, an  *)
(* image, or an image together with a text (a copy from a browser or an    *)
(* office document); copied records what the clipboard held at each poll.  *)

BothClip(img, text) == [image |-> img, text |-> text, throws |-> FALSE]

PreferTexts == {<<"a">>, <<"b">>}

PreferClips ==
  {TextClip(t) : t \in PreferTexts}
    \cup {ImageClip(i) : i \in StoreImages}
    \cup {BothClip(i, t) : i \in StoreImages, t \in PreferTexts}

PreferPollOf(clip) ==
  /\ now < StartTime + MaxPreferPolls * POLL_PERIOD
  /\ HasImage(clip) => Cardinality(pending) < MaxPending /\ nextId < 2 * MaxImages
  /\ monitorClipboardTick(clip, now + POLL_PERIOD)
  /\ copied' = Append(copied, clip)
  /\ now' = now + POLL_PERIOD
  /\ UNCHANGED <<settings, nextId, lastMemoryCleanup, timerVars>>

PreferPoll ==
  /\ clipboardMonitorInterval
  /\ \E clip \in PreferClips : PreferPollOf(clip)

NextPrefer ==
  \/ PreferPoll
  \/ ProcessImageClipboard
  \/ ProcessImage
  \/ AddImageToHistory

SpecPrefer == Init /\ [][NextPrefer]_vars

-----------------------------------------------------------------------------
(* The timer specification: monitorClipboard, startMemoryMonitoring,       *)
(* stopMemoryMonitoring, toggle-memory-monitoring and the quit handlers    *)
(* run in any order while the user copies; pollTimers and memoryTimers     *)
(* count the interval timers that are live in the event loop.              *)

\* part_003:922 monitorClipboard: the interval is cleared if set, then set
monitorClipboard ==
  /\ clipboardMonitorInterval' = TRUE
  /\ pollTimers' = (IF clipboardMonitorInterval THEN pollTimers - 1 ELSE pollTimers) + 1
  /\ UNCHANGED <<memoryLogInterval, memoryTimers>>

\* mutant of startMemoryMonitoring: without the early return
startMemoryMonitoringAgain ==
  /\ memoryLogInterval' = TRUE
  /\ memoryTimers' = memoryTimers + 1
  /\ UNCHANGED <<clipboardMonitorInterval, pollTimers>>

\* part_003:219 startMemoryMonitoring
startMemoryMonitoring ==
  IF memoryLogInterval
  THEN UNCHANGED <<memoryLogInterval, memoryTimers, clipboardMonitorInterval, pollTimers>>
  ELSE /\ memoryLogInterval' = TRUE
       /\ memoryTimers' = memoryTimers + 1
       /\ UNCHANGED <<clipboardMonitorInterval, pollTimers>>

\* part_003:226 stopMemoryMonitoring, part_003:510 clearMemoryMonitoring
stopMemoryMonitoring ==
  /\ memoryLogInterval' = FALSE
  /\ memoryTimers' = IF memoryLogInterval THEN memoryTimers - 1 ELSE memoryTimers
  /\ UNCHANGED <<clipboardMonitorInterval, pollTimers>>

\* part_003:1755 ipcMain.handle('toggle-memory-monitoring')
toggleMemoryMonitoring(enabled) ==
  IF enabled THEN startMemoryMonitoring ELSE stopMemoryMonitoring

nonTimerVars == <<storeVars, pollVars, settings, nextId, pending, lastMemoryCleanup,
                  copied, pasteVars, truncateCalls, lastThumbnail, now>>

MonitorClipboard ==
  /\ monitorClipboard
  /\ UNCHANGED nonTimerVars

StartMemoryMonitoring ==
  /\ startMemoryMonitoring
  /\ UNCHANGED nonTimerVars

StopMemoryMonitoring ==
  /\ stopMemoryMonitoring
  /\ UNCHANGED nonTimerVars

ToggleMemoryMonitoring ==
  /\ \E enabled \in BOOLEAN : toggleMemoryMonitoring(enabled)
  /\ UNCHANGED nonTimerVars

\* the poll timer ticks while a poll interval is live
TimersPoll ==
  /\ pollTimers > 0
  /\ Poll

NextTimers ==
  \/ MonitorClipboard
  \/ StartMemoryMonitoring
  \/ StopMemoryMonitoring
  \/ ToggleMemoryMonitoring
  \/ ShutdownCleanup
  \/ TimersPoll
  \/ ProcessImageClipboard
  \/ ProcessImage
  \/ AddImageToHistory

SpecTimers == Init /\ [][NextTimers]_vars

-----------------------------------------------------------------------------
(* The thumbnail specification: the user copies one image of up to         *)
(* MaxImageDim x MaxImageDim pixels; settings.thumbWidth is any value the  *)
(* settings file can hold; lastThumbnail records the size of the thumbnail *)
(* processImage writes, the image it was made of and the width limit.      *)

\* part_003:1765 getThumbWidth, for a raw settings.thumbWidth value v
ThumbWidthOf(v) ==
  IF v.kind = "number" /\ v.num >= MIN_THUMB_WIDTH * v.den
  THEN v.num \div v.den
  ELSE DEFAULT_THUMB_WIDTH

\* NativeImage.resize({ width }) keeps the aspect ratio (part_003:1001);
\* the height is height * width / img.width, rounded down or up
ResizedHeights(img, width) ==
  {(img.height * width) \div img.width,
   (img.height * width + img.width - 1) \div img.width}

\* part_003:1000 the thumbnail: img.resize({ width: Math.min(maxThumbWidth, size.width) })
ThumbnailSizes(img, maxThumbWidth) ==
  LET width == Min(maxThumbWidth, img.width)
  IN {[width |-> width, height |-> h] : h \in ResizedHeights(img, width)}

ThumbImages ==
  {[bytes |-> 1, width |-> w, height |-> h] : w \in 1..MaxImageDim, h \in 1..MaxImageDim}

ThumbWidthValues ==
  {NotANumber, Num(1, 1), Num(MIN_THUMB_WIDTH, 1), Num(2 * MIN_THUMB_WIDTH + 1, 2),
   Num(MaxImageDim, 1)}

ThumbPoll ==
  /\ clipboardMonitorInterval
  /\ now < StartTime + MaxThumbPolls * POLL_PERIOD
  /\ \E img \in ThumbImages : monitorClipboardTick(ImageClip(img), now + POLL_PERIOD)
  /\ now' = now + POLL_PERIOD
  /\ UNCHANGED <<settings, nextId, lastMemoryCleanup, copied, timerVars>>

ThumbProcessImage ==
  /\ \E task \in pending : \E ok \in WriteOutcomes : \E v \in ThumbWidthValues :
       /\ processImage(task, ok[1], ok[2])
       /\ \E size \in ThumbnailSizes(task.img, ThumbWidthOf(v)) :
            lastThumbnail' = IF ok[2]
                             THEN [width |-> size.width, height |-> size.height,
                                   img |-> task.img, maxDim |-> ThumbWidthOf(v)]
                             ELSE lastThumbnail
  /\ UNCHANGED <<copied, clipboardMonitorInterval, memoryLogInterval, pasteVars,
                 liveTimers, truncateCalls>>

NextThumb ==
  \/ ThumbPoll
  \/ ProcessImageClipboard
  \/ ThumbProcessImage
  \/ AddImageToHistory

SpecThumb == Init /\ [][NextThumb]_vars

-----------------------------------------------------------------------------
(* Vocabulary of the properties.                                           *)

\* the content an entry stands for: its text after truncation, or its image signature
EntryContent(h) ==
  IF IsText(h)
  THEN [type |-> "text", value |-> TextOf(h.text)]
  ELSE [type |-> "image", value |-> h.signature]

ContentsOf(history) == {EntryContent(history[i]) : i \in 1..Len(history)}

\* a step in which the poll hands a text to addToHistory
TextInsertStep ==
  /\ Poll \/ CopyPoll
  /\ lastClipboardSignature' # lastClipboardSignature
  /\ lastClipboardSignature'.type = "text"

\* a step in which the setImmediate callback hands an image to addToHistory
ImageInsertStep == AddImageToHistory \/ CopyAddImageToHistory

InsertStep == TextInsertStep \/ ImageInsertStep

\* a step in which content c is handed to addToHistory
InsertOf(c) ==
  \/ TextInsertStep /\ lastClipboardSignature' = c
  \/ /\ ImageInsertStep
     /\ \E task \in pending \ pending' : c = [type |-> "image", value |-> task.signature]

-----------------------------------------------------------------------------
(* C1: after every call of addToHistory returns, the history is no longer  *)
(* than the effective capacity getMaxHistory().                            *)
C1_LengthBoundedAfterInsert ==
  [][InsertStep => Len(clipboardHistory') <= MaxHistoryOf(settings')]_vars

\* an insert has just overflowed the capacity: the history is full, its head
\* is the entry of this instant and the LRU cache still knows an evicted item
C1_Witness ==
  /\ Len(clipboardHistory) = getMaxHistory
  /\ Len(clipboardHistory) >= 1
  /\ clipboardHistory[1].timestamp = now
  /\ store.clipboardHistory.value = clipboardHistory
  /\ \E i \in 1..Len(clipboardCache) :
       EntryContent(clipboardCache[i].item) \notin ContentsOf(clipboardHistory)

(* C2: in every reachable state no two entries of clipboardHistory have    *)
(* the same content (text after truncation, or image signature).           *)
C2_NoDuplicateContent ==
  \A i, j \in 1..Len(clipboardHistory) :
    i < j => EntryContent(clipboardHistory[i]) # EntryContent(clipboardHistory[j])

(* C3: re-inserting content that is already in the history leaves the      *)
(* length unchanged, puts that content's entry at index 0 and gives it a   *)
(* fresh timestamp.                                                        *)
C3_ReinsertMovesToFront ==
  [][\A c \in ContentsOf(clipboardHistory) :
       InsertOf(c) =>
         /\ Len(clipboardHistory') = Len(clipboardHistory)
         /\ EntryContent(clipboardHistory'[1]) = c
         /\ clipboardHistory'[1].timestamp >= now
         /\ \A i \in 1..Len(clipboardHistory) :
              EntryContent(clipboardHistory[i]) = c
                => clipboardHistory'[1].timestamp > clipboardHistory[i].timestamp]_vars

\* the items of a sequence are pairwise distinct
PairwiseDistinct(items) ==
  \A i, j \in 1..Len(items) : i < j => items[i] # items[j]

\* entry h is the entry of the copied item
IsEntryOf(h, item) ==
  IF item.type = "text"
  THEN IsText(h) /\ TextOf(h.text) = item.text
  ELSE IsImage(h) /\ h.width = item.img.width /\ h.height = item.img.height

(* C4: with capacity c, after inserting k > c pairwise distinct items the  *)
(* history is exactly the c most recently inserted items, most recent      *)
(* first, and the files of every evicted image entry have been deleted.    *)
C4_KeepsMostRecent ==
  (pending = {} /\ PairwiseDistinct(copied) /\ Len(copied) > getMaxHistory) =>
     /\ Len(clipboardHistory) = getMaxHistory
     /\ \A i \in 1..Len(clipboardHistory) :
          IsEntryOf(clipboardHistory[i], copied[Len(copied) + 1 - i])
     /\ files \subseteq ReferencedFiles(clipboardHistory)

(* C5: in every reachable state the files named by filePath and thumbPath  *)
(* of every image entry of clipboardHistory exist on disk.                 *)
C5_FilesOfEntriesExist == ReferencedFiles(clipboardHistory) \subseteq files

(* C6: no operation issues a second delete for the same file, and no       *)
(* operation deletes a file whose entry is still in the history.           *)
C6_DeletedOnceWhenRemoved ==
  [][/\ unlinks'.again = {}
     /\ \A f \in files \ files' : f \notin ReferencedFiles(clipboardHistory')]_vars

(* C7: with no image processing in flight, after cleanupOrphanedImageFiles *)
(* the files in the image directory are exactly the files the entries of   *)
(* clipboardHistory refer to.                                              *)
C7_SweepLeavesExactlyReferenced ==
  pending = {} =>
    cleanupOrphanedImageFiles([files |-> files, unlinks |-> unlinks], clipboardHistory).files
      = ReferencedFiles(clipboardHistory)

(* C8: after every public operation the history is no longer than the      *)
(* effective capacity: after update-settings, clear, a memory cleanup and  *)
(* loadHistory at a restart.                                               *)
C8_LengthBoundedAlways == Len(clipboardHistory) <= getMaxHistory

(* C9: every clear path (IPC 'clear-history', tray 'Clear History') leaves *)
(* the history, the dedup caches and the LRU cache empty, deletes the      *)
(* files of every cleared entry and leaves the persisted history empty or  *)
(* absent.                                                                 *)
C9_ClearEmptiesEverything ==
  [][(ClearHistoryIpc \/ ClearHistoryTray) =>
       /\ clipboardHistory' = <<>>
       /\ textCache' = {}
       /\ imageCache' = {}
       /\ clipboardCache' = <<>>
       /\ ReferencedFiles(clipboardHistory) \cap files' = {}
       /\ store'.clipboardHistory.value = <<>>]_vars

(* C10: when update-settings lowers maxHistory below the current length    *)
(* the history is cut to the new capacity keeping the most recent entries, *)
(* and the full image and the thumbnail of every removed image entry are   *)
(* deleted.                                                                *)
C10_LoweringTrimsAndDeletes ==
  [][(UpdateSettings /\ MaxHistoryOf(settings') < Len(clipboardHistory)) =>
       /\ clipboardHistory' = Take(clipboardHistory, MaxHistoryOf(settings'))
       /\ ReferencedFiles(Drop(clipboardHistory, MaxHistoryOf(settings'))) \cap files' = {}]_vars

(* C11: deduplication of text is decided on the full content: a text that  *)
(* was never copied before, even one with the first characters of an       *)
(* earlier text, is inserted as an entry of its own next to the entry that *)
(* was at the head.                                                        *)
C11_DistinctTextsBothKept ==
  [][\A t \in CopyTexts :
       (/\ TextInsertStep
        /\ lastClipboardSignature' = [type |-> "text", value |-> t]
        /\ [type |-> "text", text |-> t] \notin Range(copied)
        /\ clipboardHistory # <<>>
        /\ getMaxHistory >= 2)
       => /\ [type |-> "text", value |-> t] \in ContentsOf(clipboardHistory')
          /\ EntryContent(clipboardHistory[1]) \in ContentsOf(clipboardHistory')]_vars

\* two copied items are different images of the same width and height
DifferentImagesOfOneSize(a, b) ==
  /\ a.type = "image"
  /\ b.type = "image"
  /\ a.img.bytes # b.img.bytes
  /\ a.img.width = b.img.width
  /\ a.img.height = b.img.height

(* C12: deduplication of images is decided on the full content: when two   *)
(* different images of the same width and height have been copied and      *)
(* nothing had to be evicted, both are entries of clipboardHistory.        *)
C12_SameSizeImagesBothKept ==
  (pending = {} /\ Len(copied) <= getMaxHistory) =>
    \A i, j \in 1..Len(copied) :
      (i < j /\ DifferentImagesOfOneSize(copied[i], copied[j])) =>
        Cardinality({k \in 1..Len(clipboardHistory) :
                       /\ IsImage(clipboardHistory[k])
                       /\ clipboardHistory[k].width = copied[i].img.width
                       /\ clipboardHistory[k].height = copied[i].img.height}) >= 2

\* the image items of a sequence of items
ImageItems(items) == {items[k] : k \in {n \in 1..Len(items) : items[n].type = "image"}}

\* the ids of the image entries that are visible: in the history, in the
\* persisted store and in the last snapshot sent to the renderer
VisibleImageIds ==
  {i.id : i \in ImageItems(clipboardHistory)
              \cup ImageItems(store.clipboardHistory.value)
              \cup ImageItems(rendererView)}

\* saveImagePng and saveThumbnailWebP have both returned for the image with
\* this id: the ids of its two files have been drawn
WritesFinished(id) == id + 1 < nextId

(* C13: an image entry is in clipboardHistory, in the persisted store or   *)
(* in a renderer snapshot only after both its full-image write and its     *)
(* thumbnail write have finished, succeeded or failed.                     *)
C13_VisibleAfterWrites == \A id \in VisibleImageIds : WritesFinished(id)

\* an image whose full-image write failed is in the history, in the store
\* and in the snapshot
C13_Witness ==
  \E i \in ImageItems(clipboardHistory) :
    /\ i.filePath \notin files
    /\ i.filePath \notin unlinks.once
    /\ i \in ImageItems(store.clipboardHistory.value)
    /\ i.id \in {v.id : v \in ImageItems(rendererView)}

\* both intervals are cleared: the shutdown cleanup has run
ShutdownDone == ~clipboardMonitorInterval /\ ~memoryLogInterval

(* C14: after the shutdown cleanup has run, no timer and no deferred task  *)
(* fires: no image task advances, no file is written, the history and the  *)
(* store do not change.                                                    *)
C14_NothingFiresAfterShutdown ==
  [][ShutdownDone =>
       /\ \A task \in pending' : task \in pending
       /\ files' = files
       /\ clipboardHistory' = clipboardHistory
       /\ store' = store]_vars

\* the payload sendHistoryToRenderer builds in the state after the step
SnapshotAfter == LightweightHistory(clipboardCache', clipboardHistory', files')

(* C15: every operation that changes clipboardHistory (insert, move to     *)
(* front, clear from IPC or tray, trim by update-settings, trim by memory  *)
(* cleanup) has sent the snapshot of the new state on 'clipboard-updated'  *)
(* when it returns.                                                        *)
C15_EveryChangeSendsSnapshot ==
  [][(clipboardHistory' # clipboardHistory /\ ~Restart) => rendererView' = SnapshotAfter]_vars

\* a step in which the poll reads text t from the clipboard and addToHistory
\* puts a new entry at the front
TextStoredStep(t) ==
  /\ TextPoll
  /\ copied' = Append(copied, [type |-> "text", text |-> t])
  /\ clipboardHistory' # clipboardHistory

\* the first MAX_TEXT_SIZE characters followed by the marker, or the text itself
FirstCharactersAndMarker(t) ==
  IF Len(t) > MAX_TEXT_SIZE THEN Take(t, MAX_TEXT_SIZE) \o TruncationMarker ELSE t

(* C16: a text longer than MAX_TEXT_SIZE is stored as its first            *)
(* MAX_TEXT_SIZE characters followed by the truncation marker, a text of   *)
(* at most MAX_TEXT_SIZE characters is stored unchanged, and the renderer  *)
(* receives exactly that text for the entry.                               *)
C16_StoredTextIsTruncatedText ==
  [][\A t \in PolicyTexts :
       TextStoredStep(t) =>
         /\ TextOf(clipboardHistory'[1].text) = FirstCharactersAndMarker(t)
         /\ \A k \in 1..Len(rendererView') :
              rendererView'[k].timestamp = clipboardHistory'[1].timestamp
                => rendererView'[k].text = FirstCharactersAndMarker(t)]_vars

(* C17: a text is stored compressed exactly when its length exceeds        *)
(* COMPRESSION_THRESHOLD; a text of COMPRESSION_THRESHOLD characters or    *)
(* fewer is stored as a plain string.                                      *)
C17_CompressedOnlyAboveThreshold ==
  [][\A t \in PolicyTexts :
       TextStoredStep(t) =>
         (clipboardHistory'[1].text.compressed
            <=> Len(truncateText(t)) > COMPRESSION_THRESHOLD)]_vars

(* C18: decompressText(compressText(t)) = t for every text t of at most    *)
(* MAX_TEXT_SIZE characters, below, at or above the compression threshold. *)
C18_RoundTrip ==
  \A k \in 1..Len(copied) :
    (copied[k].type = "text" /\ Len(copied[k].text) <= MAX_TEXT_SIZE)
      => decompressText(compressText(copied[k].text)) = copied[k].text

(* C19: a text the renderer received is never the base64 data of the       *)
(* compressed entry it belongs to, also when decompression fails.          *)
C19_RendererNeverGetsBase64 ==
  \A k \in 1..Len(rendererView) :
    rendererView[k].type = "text" =>
      \A i \in 1..Len(clipboardHistory) :
        (/\ IsText(clipboardHistory[i])
         /\ clipboardHistory[i].text.compressed
         /\ clipboardHistory[i].timestamp = rendererView[k].timestamp)
          => rendererView[k].text # clipboardHistory[i].text.data

\* a step of the memory timer whose sample is heapUsed MB
SampleStep(heapUsed) ==
  /\ memoryLogInterval
  /\ monitorMemoryUsage(heapUsed)
  /\ UNCHANGED <<copied, timerVars>>

C21_CooldownOnlyForStandard ==
  [][\A heapUsed \in HeapSamples :
       SampleStep(heapUsed) =>
         /\ (heapUsed <= 200 /\ now - lastMemoryCleanup < 300000)
              => UNCHANGED <<storeVars, lastMemoryCleanup>>
         /\ heapUsed > 200 => lastMemoryCleanup' = now]_vars

\* a cleanup ran after the start, and the clock has moved on within the cooldown
C21_Witness ==
  /\ lastMemoryCleanup > StartTime
  /\ now > lastMemoryCleanup
  /\ now - lastMemoryCleanup < MEMORY_CLEANUP_COOLDOWN
  /\ clipboardHistory # <<>>

\* a step in which the poll reads clip
ReadStep(clip) == ReadPoll /\ copied' = Append(copied, ReadOf(clip))

\* an earlier poll of this run failed to read the clipboard
ReadFailedBefore == \E k \in 1..Len(copied) : copied[k].type = "throw"

(* C22: a poll whose clipboard read throws leaves clipboardHistory, the    *)
(* store, the scheduled image tasks and lastClipboardSignature unchanged   *)
(* and the poll timer active; a later poll that reads content not read     *)
(* before inserts it (a text at the head of the history, an image as a     *)
(* scheduled processing task).                                             *)
C22_ReadFailureIsSkipped ==
  [][\A clip \in ReadClips :
       ReadStep(clip) =>
         /\ clip.throws =>
              /\ UNCHANGED <<clipboardHistory, store, pending, lastClipboardSignature>>
              /\ clipboardMonitorInterval'
         /\ (ReadFailedBefore /\ ReadOf(clip) \notin Range(copied)) =>
              /\ (ReadOf(clip).type = "text" /\ clip.text # <<" ">>) =>
                   /\ clipboardHistory' # <<>>
                   /\ EntryContent(clipboardHistory'[1]) = [type |-> "text", value |-> clip.text]
              /\ ReadOf(clip).type = "image" =>
                   \E task \in pending' \ pending : task.img = clip.image]_vars

\* a read failed and the next poll put the text it read at the head
C22_Witness ==
  /\ clipboardMonitorInterval
  /\ clipboardHistory # <<>>
  /\ \E k \in 1..(Len(copied) - 1) :
       /\ copied[k].type = "throw"
       /\ copied[k + 1].type = "text"
       /\ EntryContent(clipboardHistory[1]) = [type |-> "text", value |-> copied[k + 1].text]

\* the clipboard holds nothing a poll can insert: no image, and a text that
\* is empty or only whitespace
NothingToInsert(clip) ==
  /\ ~clip.throws
  /\ clip.image = NoImage
  /\ \A i \in 1..Len(clip.text) : clip.text[i] = " "

IsValidCapacity(v) == v.kind = "number" /\ v.num >= v.den

(* C24: the capacity getMaxHistory returns is an integer >= 1 for every    *)
(* value of settings.maxHistory, and a value that is not a valid capacity  *)
(* gives the default.                                                      *)
C24_CapacityAtLeastOne ==
  /\ getMaxHistory >= 1
  /\ ~IsValidCapacity(settings.maxHistory) => getMaxHistory = DEFAULT_MAX_HISTORY

\* the lightweight projections of the entries of a history, in its order
ProjectionOf(history, onDisk) ==
  [k \in 1..Len(history) |-> Lightweight(history[k], onDisk)]

(* C25: a snapshot sent on 'clipboard-updated' lists exactly the entries   *)
(* of clipboardHistory, in clipboardHistory order.                         *)
C25_SnapshotIsHistory ==
  [][(rendererView' # rendererView /\ ~Restart)
       => rendererView' = ProjectionOf(clipboardHistory', files')]_vars

\* content c was handed to addToHistory earlier
CopiedBefore(c) ==
  \E k \in 1..Len(copied) :
    \/ c.type = "text" /\ copied[k].type = "text" /\ copied[k].text = c.value
    \/ c.type = "image" /\ copied[k].type = "image" /\ ImageSignature(copied[k].img) = c.value

\* the contents the user can copy in the copy specification
CopyContents ==
  {[type |-> "text", value |-> t] : t \in CopyTexts}
    \cup {[type |-> "image", value |-> ImageSignature(i)] : i \in CopyImages}

(* C26: content that was copied, was then removed from the history, and is *)
(* copied again is inserted as the entry at the head of clipboardHistory.  *)
C26_RemovedContentIsInsertedAgain ==
  [][\A c \in CopyContents :
       (InsertOf(c) /\ CopiedBefore(c) /\ c \notin ContentsOf(clipboardHistory))
         => /\ clipboardHistory' # <<>>
            /\ EntryContent(clipboardHistory'[1]) = c]_vars

\* the files processImage drew for a task
TaskFiles(task) == {task.filePath, task.thumbPath} \ {NoFile}

(* C27: no image entry enters the history with a file that the orphan      *)
(* sweep deleted while its addToHistory was waiting in setImmediate.       *)
C27_SweepSparesImagesInFlight ==
  [][\A task \in pending :
       (task.stage = "written" /\ AddImageToHistory /\ task \notin pending'
          /\ clipboardHistory' # clipboardHistory)
         => TaskFiles(task) \cap unlinks.once = {}]_vars

(* C28: when addToHistory returns for an image, each file processImage     *)
(* wrote for it is referenced by an entry of clipboardHistory or is        *)
(* deleted, also when the image duplicates a known one.                    *)
C28_NoFileLeftByDuplicate ==
  [][\A task \in pending :
       (task.stage = "written" /\ ImageInsertStep /\ task \notin pending')
         => \A f \in TaskFiles(task) \cap files' : IsReferenced(f, clipboardHistory')]_vars

\* store.get('clipboardHistory', []): an absent key reads as the empty history
PersistedHistory == IF store.clipboardHistory.present THEN store.clipboardHistory.value ELSE <<>>

(* C29: between operations the history persisted under 'clipboardHistory'  *)
(* equals the in-memory clipboardHistory, an absent key counting as empty. *)
C29_PersistedEqualsMemory == PersistedHistory = clipboardHistory

(* C30: after a cleanup cycle clipboardHistory holds the                   *)
(* min(previous length, capacity) most recent entries of the history       *)
(* before the cleanup, in the same order: the trim removes the least       *)
(* recent entries.                                                         *)
C30_CleanupKeepsMostRecent ==
  [][(MonitorMemoryUsage /\ lastMemoryCleanup' = now)
       => clipboardHistory' = Take(clipboardHistory, Min(Len(clipboardHistory), getMaxHistory))]_vars

\* the files of the images whose addToHistory waits in setImmediate
InFlightFiles == UNION {TaskFiles(task) : task \in {t \in pending : t.stage = "written"}}

(* C31: every cleanup cycle, standard or aggressive, trims the history and *)
(* then sweeps the orphans against the entries that remain: when the cycle *)
(* is over, every file on disk is referenced by an entry of the trimmed    *)
(* history or belongs to an image still being ingested.                    *)
C31_SweepFollowsTrim ==
  [][(MonitorMemoryUsage /\ lastMemoryCleanup' = now)
       => \A f \in files' \ InFlightFiles : IsReferenced(f, clipboardHistory')]_vars


(* C32: a paste-item request sends at most one paste to the target         *)
(* application: after the first keystroke attempt that does not throw, no  *)
(* later retry timer or fallback of the request sends another one.         *)
C32_OnePastePerRequest == keystrokes <= 1


\* the tick of the poll timer is skipped by the back-off
TickSkipped == now' - lastClipboardCheck < currentCheckInterval

(* C33: a poll that detects a clipboard change resets the back-off: when   *)
(* that poll returns, the poll interval is MIN_CHECK_INTERVAL.             *)
C33_ChangeResetsInterval ==
  [][(IdlePoll /\ lastClipboardSignature' # lastClipboardSignature)
       => currentCheckInterval' = MIN_CHECK_INTERVAL]_vars

(* C34: currentCheckInterval stays within [MIN_CHECK_INTERVAL,             *)
(* MAX_CHECK_INTERVAL]; after more than IDLE_CHECKS consecutive no-change  *)
(* polls a tick closer than the interval to the last performed poll is     *)
(* skipped and changes nothing, and a performed poll grows the interval by *)
(* CHECK_INTERVAL_STEP, up to the maximum.                                 *)
C34_BackOffWithinBounds ==
  /\ [](currentCheckInterval >= MIN_CHECK_INTERVAL /\ currentCheckInterval <= MAX_CHECK_INTERVAL)
  /\ [][(IdlePoll /\ consecutiveEmptyChecks > IDLE_CHECKS)
          => IF TickSkipped
             THEN UNCHANGED <<storeVars, pollVars, pending>>
             ELSE /\ lastClipboardCheck' = now'
                  /\ \/ currentCheckInterval' = currentCheckInterval + CHECK_INTERVAL_STEP
                     \/ /\ currentCheckInterval' = MAX_CHECK_INTERVAL
                        /\ currentCheckInterval + CHECK_INTERVAL_STEP > MAX_CHECK_INTERVAL]_vars

C34_Witness ==
  /\ currentCheckInterval = MAX_CHECK_INTERVAL
  /\ consecutiveEmptyChecks > IDLE_CHECKS
  /\ now - lastClipboardCheck > 0


(* C35: truncation is applied at most once per entry, at ingestion: the    *)
(* text the poll has truncated is not passed through truncateText again.   *)
C35_TruncatedOnce == truncateCalls <= 1

(* C36: truncateText is idempotent: truncating the text the poll has       *)
(* truncated gives the same text, no longer and with no second marker.     *)
C36_TruncateIdempotent ==
  lastClipboardSignature.type = "text"
    => /\ truncateText(lastClipboardSignature.value) = lastClipboardSignature.value
       /\ Len(lastClipboardSignature.value) <= MAX_TEXT_SIZE + Len(TruncationMarker)

C36_Witness ==
  /\ lastClipboardSignature.type = "text"
  /\ Len(lastClipboardSignature.value) > MAX_TEXT_SIZE
  /\ Len(clipboardHistory) > 0


\* the poll runs with clip on the clipboard
PreferStep(clip) == PreferPoll /\ copied' = Append(copied, clip)

\* the clipboard holds a non-empty image and a text
HoldsBoth(clip) == clip.image # NoImage /\ clip.text # <<>>

(* C37: when one poll finds both a non-empty image and a text on the       *)
(* clipboard, only the image is considered: the poll does not insert the   *)
(* text, and lastClipboardSignature stays as it was or becomes the         *)
(* signature of the image, whether or not the image is new.                *)
C37_ImagePreferred ==
  [][\A clip \in PreferClips :
       (PreferStep(clip) /\ HoldsBoth(clip)) =>
         /\ UNCHANGED <<clipboardHistory, textCache, store>>
         /\ \/ lastClipboardSignature' = lastClipboardSignature
            \/ lastClipboardSignature' = [type |-> "image", value |-> ImageSignature(clip.image)]
         /\ lastClipboardSignature # [type |-> "image", value |-> ImageSignature(clip.image)]
              => \E task \in pending' \ pending : task.img = clip.image]_vars

\* a text was inserted, then a poll found an image together with another
\* text, the image was inserted, and a later poll found the same image with
\* a text again
C37_Witness ==
  /\ Len(copied) >= 3
  /\ ~HoldsBoth(copied[1]) /\ copied[1].text # <<>>
  /\ HoldsBoth(copied[2]) /\ copied[2].text # copied[1].text
  /\ HoldsBoth(copied[3]) /\ copied[3].image = copied[2].image
  /\ lastClipboardSignature.type = "image"
  /\ clipboardHistory # <<>>
  /\ \A i \in 1..Len(clipboardHistory) : IsImage(clipboardHistory[i])


\* running the shutdown cleanup in this state changes nothing
ShutdownIsNoOp ==
  /\ \A task \in pending : task.stage # "tracked"
  /\ pendingPasteTimers = {}
  /\ ~clipboardMonitorInterval
  /\ ~memoryLogInterval

(* C38: at most one clipboard poll interval and at most one memory         *)
(* monitoring interval are live at any time, each exactly when its handle  *)
(* is set, for any sequence of monitorClipboard, startMemoryMonitoring,    *)
(* stopMemoryMonitoring, toggle-memory-monitoring and the quit handlers;   *)
(* running the shutdown cleanup again right after it ran changes nothing.  *)
C38_OneIntervalOfEachKind ==
  /\ [](/\ pollTimers = (IF clipboardMonitorInterval THEN 1 ELSE 0)
        /\ memoryTimers = (IF memoryLogInterval THEN 1 ELSE 0))
  /\ [][ShutdownCleanup => (ShutdownIsNoOp' /\ pollTimers' = 0 /\ memoryTimers' = 0)]_vars

\* the application was told to quit, memory monitoring was switched on
\* again and entries were copied before
C38_Witness ==
  /\ ~clipboardMonitorInterval /\ pollTimers = 0
  /\ memoryLogInterval /\ memoryTimers = 1
  /\ clipboardHistory # <<>>


\* a * d is within one d of n: a is n / d rounded down or up
RoundedQuotient(a, n, d) == (a - 1) * d < n /\ n < (a + 1) * d

Max(a, b) == IF a > b THEN a ELSE b

(* C39: the thumbnail of an ingested image is scaled by                    *)
(* min(maxDim / width, maxDim / height) only when width or height exceeds  *)
(* maxDim: neither dimension of the thumbnail exceeds maxDim, both are at  *)
(* least 1, the aspect ratio is kept, a square image larger than maxDim    *)
(* gives maxDim x maxDim, and an image within maxDim keeps its size.       *)
C39_ThumbnailWithinMaxDim ==
  lastThumbnail # NoThumbnail =>
    LET img == lastThumbnail.img
        maxDim == lastThumbnail.maxDim
        larger == Max(img.width, img.height)
    IN IF img.width <= maxDim /\ img.height <= maxDim
       THEN lastThumbnail.width = img.width /\ lastThumbnail.height = img.height
       ELSE /\ lastThumbnail.width <= maxDim /\ lastThumbnail.height <= maxDim
            /\ lastThumbnail.width >= 1 /\ lastThumbnail.height >= 1
            /\ RoundedQuotient(lastThumbnail.width, img.width * maxDim, larger)
            /\ RoundedQuotient(lastThumbnail.height, img.height * maxDim, larger)


\* the texts of the text entries of a history
TextsOf(history) ==
  {Plain(TextOf(history[i].text)) : i \in {j \in 1..Len(history) : IsText(history[j])}}

\* the signatures of the image entries of a history
SignaturesOf(history) ==
  {history[i].signature : i \in {j \in 1..Len(history) : IsImage(history[j])}}

(* C40: after every operation textCache is the set of the texts of the     *)
(* text entries of clipboardHistory and imageCache is the set of the       *)
(* signatures of its image entries.                                        *)
C40_CachesMatchHistory ==
  /\ textCache = TextsOf(clipboardHistory)
  /\ imageCache = SignaturesOf(clipboardHistory)

=============================================================================
